---- MODULE Spec2Model ----
(***************************************************************************)
(* Model of app/models.py: the four SQLAlchemy entities User, Bucket,      *)
(* Category and Activity and their save / delete / exists helpers.         *)
(*                                                                         *)
(* The store is the set of committed rows of each table.  Only the columns *)
(* that the queries of models.py filter on or that carry a constraint are  *)
(* kept (primary keys, foreign keys, the two unique columns); names,       *)
(* descriptions, password hashes and timestamps take no part in any query. *)
(* save() is modelled for a newly constructed object (an INSERT).          *)
(***************************************************************************)
EXTENDS Integers, FiniteSets, Sequences, TLC

\* ---------------------------------------------------------------- bounds
MaxUserId == 2
MaxBucketId == 2
MaxActivityId == 1
MaxCategoryId == 2
NumEmails == 2
NumNames == 2
NumThreads == 2
MaxTime == 4
MaxTokens == 2

\* Lifetime of a token, in clock ticks (the serializer's expires_in).
ExpiresIn == 2

\* A NULL column value (the foreign keys of models.py are nullable).
NULL == 0

UserIds == 1..MaxUserId
BucketIds == 1..MaxBucketId
ActivityIds == 1..MaxActivityId
CategoryIds == 1..MaxCategoryId
Emails == 1..NumEmails
Names == 1..NumNames
Threads == 1..NumThreads

\* Values a caller may pass for a foreign key or a lookup key.
UserRefs == UserIds \cup {NULL}
BucketRefs == BucketIds \cup {NULL}
ActivityRefs == ActivityIds \cup {NULL}

VARIABLES
    users,        \* table user:     rows [id, email]
    buckets,      \* table bucket:   rows [id, user_id]
    activities,   \* table activity: rows [id, bucket_id, user_id]
    categories,   \* table category: rows [id, category_name]
    fkEnforced,   \* does the engine behind db enforce FOREIGN KEY constraints
    session,      \* db.session of the caller: "active" | "deactive"
    ret,          \* outcome of the last call: [op, err, val]
    now,          \* the clock the token serializer reads
    issued,       \* tokens handed out by generate_token
    threads       \* concurrent callers, each with a session of its own

store == <<users, buckets, activities, categories>>
tables == <<users, buckets, activities, categories, fkEnforced>>
tokenVars == <<now, issued>>
vars == <<users, buckets, activities, categories, fkEnforced, session, ret,
          now, issued, threads>>

\* ------------------------------------------------------------ the session
NoError == "none"
IntegrityError == "IntegrityError"
UnmappedInstanceError == "UnmappedInstanceError"
InvalidRequestError == "InvalidRequestError"
ObjectDeletedError == "ObjectDeletedError"

Returned(op, val) == [op |-> op, err |-> NoError, val |-> val]
Raised(op, err) == [op |-> op, err |-> err, val |-> NULL]

\* A flush that failed inside commit() leaves the session transaction
\* deactivated: every later query or commit on that session raises until
\* rollback() is called.
SessionUsable == session = "active"

\* Any call on a deactivated session: raises, nothing is written.
RaisesOnDeactive(op) ==
    /\ session = "deactive"
    /\ ret' = Raised(op, InvalidRequestError)
    /\ UNCHANGED <<tables, session, tokenVars, threads>>

\* commit() whose flush violates a constraint: the transaction is rolled
\* back in the store, the session is left deactivated, the error propagates.
CommitFails(op) ==
    /\ ret' = Raised(op, IntegrityError)
    /\ session' = "deactive"
    /\ UNCHANGED <<tables, tokenVars, threads>>

\* db.session.delete(None)
DeleteNone(op) ==
    /\ ret' = Raised(op, UnmappedInstanceError)
    /\ UNCHANGED <<tables, session, tokenVars, threads>>

\* Flask-SQLAlchemy removes the scoped session when the application context
\* ends, which rolls a deactivated transaction back.
Teardown ==
    /\ session = "deactive"
    /\ session' = "active"
    /\ ret' = Returned("teardown", NULL)
    /\ UNCHANGED <<tables, tokenVars, threads>>

\* --------------------------------------------------------------- queries
\* Query.filter_by(...).first(): the matching rows; first() is None when
\* the set is empty.
UsersByEmail(us, e) == {u \in us : u.email = e}
UsersById(us, i) == {u \in us : u.id = i}
\* Variant: the owner is not part of the filter.
BucketsByIdUser_AnyOwner(bs, b, u) == {x \in bs : x.id = b}
BucketsByIdUser(bs, b, u) == {x \in bs : x.id = b /\ x.user_id = u}
ActivitiesByKeys(as, b, u, a) ==
    {x \in as : x.bucket_id = b /\ x.user_id = u /\ x.id = a}
\* Variant: the filter compares the wrong column.
CategoriesByName_WrongColumn(cs, n) == {c \in cs : c.id = n}
CategoriesByName(cs, n) == {c \in cs : c.category_name = n}

\* .first() of a query: the id of the row found, None for no row.
FirstId(rows) == IF rows = {} THEN NULL ELSE (CHOOSE r \in rows : TRUE).id

IdsOf(rows) == {r.id : r \in rows}

\* autoincrement primary key: the engine hands out an id above every id
\* present in the table (max+1 for a rowid table, the next value of a
\* sequence otherwise).
FreshIds(rows, ids) == {i \in ids : \A r \in rows : r.id < i}


\* ------------------------------------------------------------ constraints
\* unique=True on user.email and on category.category_name
\* Variants: the column is not declared unique.
EmailIsFree_NotUnique(us, e) == TRUE
NameIsFree_NotUnique(cs, n) == TRUE
EmailIsFree(us, e) == UsersByEmail(us, e) = {}
NameIsFree(cs, n) == CategoriesByName(cs, n) = {}

\* db.ForeignKey('user.id') / db.ForeignKey('bucket.id'): a nullable
\* reference; when the engine enforces it, a non-NULL value must name a row.
RefHolds(enforced, ref, rows) ==
    enforced => (ref = NULL \/ ref \in IdsOf(rows))

\* ---------------------------------------------------------- relationships
\* User.buckets, User.activities, Bucket.activities: the child rows whose
\* foreign key names the parent.  All three carry cascade="delete, ...".
BucketsOfUser(bs, uid) == {b \in bs : b.user_id = uid}
ActivitiesOfUser(as, uid) == {a \in as : a.user_id = uid}
ActivitiesOfBucket(as, bid) == {a \in as : a.bucket_id = bid}

\* Rows the unit of work deletes together with a bucket.
BucketCascade(as, bid) == ActivitiesOfBucket(as, bid)

\* Rows the unit of work deletes together with a user: the user's
\* activities, the user's buckets, and through Bucket.activities every
\* activity of those buckets.
UserCascadeBuckets(bs, uid) == BucketsOfUser(bs, uid)
UserCascadeActivities(as, bs, uid) ==
    ActivitiesOfUser(as, uid)
        \cup UNION {BucketCascade(as, b.id) : b \in UserCascadeBuckets(bs, uid)}

\* ------------------------------------------------------------------ User
UserExists(e) ==
    \/ RaisesOnDeactive("User.exists")
    \/ /\ SessionUsable
       /\ ret' = Returned("User.exists", UsersByEmail(users, e) # {})
       /\ UNCHANGED <<tables, session, tokenVars, threads>>

\* add(self); commit(); reload by email
UserInsert(op, e) ==
    \/ /\ ~EmailIsFree(users, e)
       /\ CommitFails(op)
    \/ /\ EmailIsFree(users, e)
       /\ \E i \in FreshIds(users, UserIds) :
            /\ users' = users \cup {[id |-> i, email |-> e]}
            /\ ret' = Returned(op, i)
       /\ UNCHANGED <<buckets, activities, categories, fkEnforced, session,
                      tokenVars, threads>>

UserSave(e) ==
    \/ RaisesOnDeactive("User.save")
    \/ /\ SessionUsable
       /\ UserInsert("User.save", e)

UserDelete(e) ==
    \/ RaisesOnDeactive("User.delete")
    \/ /\ SessionUsable
       /\ UsersByEmail(users, e) = {}
       /\ DeleteNone("User.delete")
    \/ /\ SessionUsable
       /\ \E u \in UsersByEmail(users, e) :
            /\ users' = users \ {u}
            /\ buckets' = buckets \ UserCascadeBuckets(buckets, u.id)
            /\ activities' =
                 activities \ UserCascadeActivities(activities, buckets, u.id)
       /\ ret' = Returned("User.delete", NULL)
       /\ UNCHANGED <<categories, fkEnforced, session, tokenVars, threads>>

\* Query.delete() is one bulk DELETE FROM user: no ORM cascade runs.  It
\* fails when the engine enforces a foreign key that still names a user.
BulkDeleteFails(enforced, us, bs, as) ==
    enforced /\ \E r \in bs \cup as : r.user_id \in IdsOf(us)

\* Variant: the users are deleted one by one and each deletion that goes
\* through is kept.
UsersAfterDropAll_RowByRow(enforced, us, bs, as) ==
    {u \in us : enforced /\ \E r \in bs \cup as : r.user_id = u.id}

UsersAfterDropAll(enforced, us, bs, as) ==
    IF BulkDeleteFails(enforced, us, bs, as) THEN us ELSE {}

\* try: delete, commit / except Exception: rollback.  The rollback also
\* re-activates a deactivated session.
UserDropAll ==
    /\ users' = IF SessionUsable
                THEN UsersAfterDropAll(fkEnforced, users, buckets, activities)
                ELSE users
    /\ session' = "active"
    /\ ret' = Returned("User.drop_all", NULL)
    /\ UNCHANGED <<buckets, activities, categories, fkEnforced, tokenVars,
                   threads>>

\* ---------------------------------------------------------------- Bucket
BucketSave(u) ==
    \/ RaisesOnDeactive("Bucket.save")
    \/ /\ SessionUsable
       /\ ~RefHolds(fkEnforced, u, users)
       /\ CommitFails("Bucket.save")
    \/ /\ SessionUsable
       /\ RefHolds(fkEnforced, u, users)
       /\ \E i \in FreshIds(buckets, BucketIds) :
            /\ buckets' = buckets \cup {[id |-> i, user_id |-> u]}
            /\ ret' = Returned("Bucket.save", i)
       /\ UNCHANGED <<users, activities, categories, fkEnforced, session,
                      tokenVars, threads>>

BucketDelete(b, u) ==
    \/ RaisesOnDeactive("Bucket.delete")
    \/ /\ SessionUsable
       /\ BucketsByIdUser(buckets, b, u) = {}
       /\ DeleteNone("Bucket.delete")
    \/ /\ SessionUsable
       /\ \E x \in BucketsByIdUser(buckets, b, u) :
            /\ buckets' = buckets \ {x}
            /\ activities' = activities \ BucketCascade(activities, x.id)
       /\ ret' = Returned("Bucket.delete", NULL)
       /\ UNCHANGED <<users, categories, fkEnforced, session, tokenVars,
                      threads>>

BucketExists(b, u) ==
    \/ RaisesOnDeactive("Bucket.exists")
    \/ /\ SessionUsable
       /\ ret' = Returned("Bucket.exists", BucketsByIdUser(buckets, b, u) # {})
       /\ UNCHANGED <<tables, session, tokenVars, threads>>

\* -------------------------------------------------------------- Activity
ActivitySave(b, u) ==
    \/ RaisesOnDeactive("Activity.save")
    \/ /\ SessionUsable
       /\ ~(RefHolds(fkEnforced, b, buckets) /\ RefHolds(fkEnforced, u, users))
       /\ CommitFails("Activity.save")
    \/ /\ SessionUsable
       /\ RefHolds(fkEnforced, b, buckets)
       /\ RefHolds(fkEnforced, u, users)
       /\ \E i \in FreshIds(activities, ActivityIds) :
            /\ activities' =
                 activities \cup {[id |-> i, bucket_id |-> b, user_id |-> u]}
            /\ ret' = Returned("Activity.save", i)
       /\ UNCHANGED <<users, buckets, categories, fkEnforced, session,
                      tokenVars, threads>>

\* Variant: the user is not part of the filter.
ActivityFound_NoUser(as, b, u, a) ==
    \E x \in as : x.bucket_id = b /\ x.id = a
ActivityFound(as, b, u, a) == ActivitiesByKeys(as, b, u, a) # {}

ActivityExists(b, u, a) ==
    \/ RaisesOnDeactive("Activity.exists")
    \/ /\ SessionUsable
       /\ ret' = Returned("Activity.exists", ActivityFound(activities, b, u, a))
       /\ UNCHANGED <<tables, session, tokenVars, threads>>

ActivityDelete(b, a, u) ==
    \/ RaisesOnDeactive("Activity.delete")
    \/ /\ SessionUsable
       /\ ActivitiesByKeys(activities, b, u, a) = {}
       /\ DeleteNone("Activity.delete")
    \/ /\ SessionUsable
       /\ \E x \in ActivitiesByKeys(activities, b, u, a) :
            activities' = activities \ {x}
       /\ ret' = Returned("Activity.delete", NULL)
       /\ UNCHANGED <<users, buckets, categories, fkEnforced, session,
                      tokenVars, threads>>

\* ---------------------------------------------------------------- tokens
\* TimedJSONWebSignatureSerializer(SECRET_KEY): dumps() signs the payload
\* {id} and the expiry header; loads() checks the signature, then the expiry.
SecretKey == "SECRET_KEY"
OtherKey == "other key"
Sign(key, id, exp) == <<key, id, exp>>
Dumps(key, id, t) ==
    [id |-> id, exp |-> t + ExpiresIn, sig |-> Sign(key, id, t + ExpiresIn)]

BadSignature == "BadSignature"
SignatureExpired == "SignatureExpired"
\* Variant: the expiry header is not checked.
Loads_NoExpiry(key, tok, t) ==
    IF tok.sig # Sign(key, tok.id, tok.exp) THEN BadSignature ELSE "ok"

Loads(key, tok, t) ==
    IF tok.sig # Sign(key, tok.id, tok.exp) THEN BadSignature
    ELSE IF tok.exp < t THEN SignatureExpired
    ELSE "ok"

\* What a caller can make of a token without the secret: another id or a
\* later expiry under the old signature, or the same content signed with
\* another key.
Tampered(tok) ==
    {[tok EXCEPT !.id = i] : i \in UserIds \ {tok.id}}
        \cup {[tok EXCEPT !.exp = tok.exp + 1]}
        \cup {[tok EXCEPT !.sig = Sign(OtherKey, tok.id, tok.exp)]}

TokenInputs == issued \cup UNION {Tampered(tok) : tok \in issued}

\* self.id is read from the instance; on a deactivated session that read
\* raises and no token is made.  The call returns the token.
GenerateToken(u) ==
    \/ /\ u \in users
       /\ RaisesOnDeactive("User.generate_token")
    \/ /\ u \in users
       /\ SessionUsable
       /\ Cardinality(issued \cup {Dumps(SecretKey, u.id, now)}) <= MaxTokens
       /\ issued' = issued \cup {Dumps(SecretKey, u.id, now)}
       /\ ret' = Returned("User.generate_token", Dumps(SecretKey, u.id, now))
       /\ UNCHANGED <<tables, session, now, threads>>

VerifyToken(tok) ==
    \/ /\ Loads(SecretKey, tok, now) # "ok"
       /\ ret' = Returned("User.verify_token", NULL)
       /\ UNCHANGED <<tables, session, tokenVars, threads>>
    \/ /\ Loads(SecretKey, tok, now) = "ok"
       /\ RaisesOnDeactive("User.verify_token")
    \/ /\ Loads(SecretKey, tok, now) = "ok"
       /\ SessionUsable
       /\ ret' = Returned("User.verify_token",
                          IF UsersById(users, tok.id) = {} THEN NULL
                          ELSE tok.id)
       /\ UNCHANGED <<tables, session, tokenVars, threads>>

Tick ==
    /\ now < MaxTime
    /\ now' = now + 1
    /\ UNCHANGED <<tables, session, ret, issued, threads>>

\* ------------------------------------------------------ concurrent callers
\* Each thread runs one call at a time on a scoped session of its own.  A
\* query and a commit are single steps against the committed rows; between
\* the steps of one call the other threads may run.
Idle == [pc |-> "idle", op |-> "none", arg |-> NULL, err |-> NoError,
         val |-> NULL, loaded |-> NULL, session |-> "active"]

ThreadOps == {"User.save", "User.get_or_create", "User.delete",
              "Category.save", "Category.exists"}

ArgsOf(op) == IF op \in {"Category.save", "Category.exists"} THEN Names
              ELSE Emails

Call(t, op) ==
    /\ threads[t].pc = "idle"
    /\ \E x \in ArgsOf(op) :
         threads' = [threads EXCEPT ![t].pc = op, ![t].op = op, ![t].arg = x]
    /\ UNCHANGED <<tables, session, ret, tokenVars>>

\* The call returns val or raises err; a failed commit leaves the thread's
\* session deactivated.
Finish(t, err, val) ==
    threads' = [threads EXCEPT
                  ![t].pc = "done", ![t].err = err, ![t].val = val,
                  ![t].session = IF err = IntegrityError THEN "deactive"
                                 ELSE threads[t].session]

\* The first store access of any call on a deactivated session raises.
TRaisesOnDeactive(t) ==
    /\ threads[t].pc \in ThreadOps
    /\ threads[t].session = "deactive"
    /\ Finish(t, InvalidRequestError, NULL)
    /\ UNCHANGED <<tables, session, ret, tokenVars>>

\* User.save: add + commit.  The commit expires the instance, which keeps
\* its primary key.
TUserCommit(t) ==
    /\ threads[t].pc \in {"User.save", "goc.save"}
    /\ threads[t].session = "active"
    /\ \/ /\ ~EmailIsFree(users, threads[t].arg)
          /\ Finish(t, IntegrityError, NULL)
          /\ UNCHANGED users
       \/ /\ EmailIsFree(users, threads[t].arg)
          /\ \E i \in FreshIds(users, UserIds) :
               /\ users' = users \cup {[id |-> i, email |-> threads[t].arg]}
               /\ threads' = [threads EXCEPT ![t].pc = "save.refresh",
                                             ![t].val = i]
    /\ UNCHANGED <<buckets, activities, categories, fkEnforced, session, ret,
                   tokenVars>>

\* User.save, return line: reading self.email of the expired instance
\* reloads the row by primary key; a row deleted since the commit raises.
TUserRefresh(t) ==
    /\ threads[t].pc = "save.refresh"
    /\ IF UsersById(users, threads[t].val) = {}
       THEN Finish(t, ObjectDeletedError, NULL)
       ELSE threads' = [threads EXCEPT
                          ![t].pc = "save.query",
                          ![t].loaded =
                             (CHOOSE u \in UsersById(users, threads[t].val) :
                                TRUE).email]
    /\ UNCHANGED <<tables, session, ret, tokenVars>>

\* User.save, return line: the query by that email, whose row (or None) is
\* returned
TUserReload(t) ==
    /\ threads[t].pc = "save.query"
    /\ Finish(t, NoError, FirstId(UsersByEmail(users, threads[t].loaded)))
    /\ UNCHANGED <<tables, session, ret, tokenVars>>

\* get_or_create: the User.exists(self.email) test
TGocExists(t) ==
    /\ threads[t].pc = "User.get_or_create"
    /\ threads[t].session = "active"
    /\ threads' = [threads EXCEPT ![t].pc =
                     IF UsersByEmail(users, threads[t].arg) # {}
                     THEN "goc.fetch" ELSE "goc.save"]
    /\ UNCHANGED <<tables, session, ret, tokenVars>>

\* get_or_create: the second query, whose row (or None) is returned
TGocFetch(t) ==
    /\ threads[t].pc = "goc.fetch"
    /\ Finish(t, NoError, FirstId(UsersByEmail(users, threads[t].arg)))
    /\ UNCHANGED <<tables, session, ret, tokenVars>>

\* User.delete: the query by email; delete(None) raises at once
TDeleteQuery(t) ==
    /\ threads[t].pc = "User.delete"
    /\ threads[t].session = "active"
    /\ \/ /\ UsersByEmail(users, threads[t].arg) = {}
          /\ Finish(t, UnmappedInstanceError, NULL)
       \/ /\ UsersByEmail(users, threads[t].arg) # {}
          /\ threads' = [threads EXCEPT
                           ![t].pc = "del.commit",
                           ![t].val = FirstId(UsersByEmail(users, threads[t].arg))]
    /\ UNCHANGED <<tables, session, ret, tokenVars>>

\* User.delete: delete(user) + commit.  The flush deletes by primary key,
\* with the cascade; a row that is gone by then matches nothing.
TDeleteCommit(t) ==
    /\ threads[t].pc = "del.commit"
    /\ users' = users \ UsersById(users, threads[t].val)
    /\ buckets' = buckets \ UserCascadeBuckets(buckets, threads[t].val)
    /\ activities' =
         activities \ UserCascadeActivities(activities, buckets, threads[t].val)
    /\ Finish(t, NoError, NULL)
    /\ UNCHANGED <<categories, fkEnforced, session, ret, tokenVars>>

\* Category.save: add + commit.  The commit expires the instance, which
\* keeps its primary key.
TCategoryCommit(t) ==
    /\ threads[t].pc \in {"Category.save", "cat.save"}
    /\ threads[t].session = "active"
    /\ \/ /\ ~NameIsFree(categories, threads[t].arg)
          /\ Finish(t, IntegrityError, NULL)
          /\ UNCHANGED categories
       \/ /\ NameIsFree(categories, threads[t].arg)
          /\ \E i \in FreshIds(categories, CategoryIds) :
               /\ categories' =
                    categories \cup {[id |-> i, category_name |-> threads[t].arg]}
               /\ threads' = [threads EXCEPT ![t].pc = "cat.refresh",
                                             ![t].val = i]
    /\ UNCHANGED <<users, buckets, activities, fkEnforced, session, ret,
                   tokenVars>>

CategoriesById(cs, i) == {c \in cs : c.id = i}

\* Category.save, return line: reading self.id of the expired instance
\* reloads the row by primary key.
TCategoryRefresh(t) ==
    /\ threads[t].pc = "cat.refresh"
    /\ IF CategoriesById(categories, threads[t].val) = {}
       THEN Finish(t, ObjectDeletedError, NULL)
       ELSE threads' = [threads EXCEPT
                          ![t].pc = "cat.query",
                          ![t].loaded =
                             FirstId(CategoriesById(categories, threads[t].val))]
    /\ UNCHANGED <<tables, session, ret, tokenVars>>

\* Category.save, return line: the query by that id, whose row is returned
TCategoryReload(t) ==
    /\ threads[t].pc = "cat.query"
    /\ Finish(t, NoError,
              FirstId(CategoriesById(categories, threads[t].loaded)))
    /\ UNCHANGED <<tables, session, ret, tokenVars>>

\* Category.exists: the query; a row found is returned at once
TCategoryQuery(t) ==
    /\ threads[t].pc = "Category.exists"
    /\ threads[t].session = "active"
    /\ \/ /\ CategoriesByName(categories, threads[t].arg) = {}
          /\ threads' = [threads EXCEPT ![t].pc = "cat.save"]
       \/ \E c \in CategoriesByName(categories, threads[t].arg) :
            Finish(t, NoError, c.id)
    /\ UNCHANGED <<tables, session, ret, tokenVars>>

\* The call has returned or raised; the thread goes on to its next call.
Return(t) ==
    /\ threads[t].pc = "done"
    /\ threads' = [threads EXCEPT
                     ![t] = [Idle EXCEPT !.session = threads[t].session]]
    /\ UNCHANGED <<tables, session, ret, tokenVars>>

\* The thread's request ends: its scoped session is removed.
TTeardown(t) ==
    /\ threads[t].pc = "idle"
    /\ threads[t].session = "deactive"
    /\ threads' = [threads EXCEPT ![t].session = "active"]
    /\ UNCHANGED <<tables, session, ret, tokenVars>>

\* ------------------------------------------------------- specification
Init ==
    /\ users = {}
    /\ buckets = {}
    /\ activities = {}
    /\ categories = {}
    /\ fkEnforced \in BOOLEAN
    /\ session = "active"
    /\ ret = Returned("init", NULL)
    /\ now = 0
    /\ issued = {}
    /\ threads = [t \in Threads |-> Idle]

Next ==
    \/ \E e \in Emails : UserExists(e)
    \/ \E e \in Emails : UserSave(e)
    \/ \E e \in Emails : UserDelete(e)
    \/ UserDropAll
    \/ \E u \in UserRefs : BucketSave(u)
    \/ \E b \in BucketRefs, u \in UserRefs : BucketDelete(b, u)
    \/ \E b \in BucketRefs, u \in UserRefs : BucketExists(b, u)
    \/ \E b \in BucketRefs, u \in UserRefs : ActivitySave(b, u)
    \/ \E b \in BucketRefs, u \in UserRefs, a \in ActivityRefs :
         ActivityExists(b, u, a)
    \/ \E b \in BucketRefs, u \in UserRefs, a \in ActivityRefs :
         ActivityDelete(b, a, u)
    \/ Teardown

Spec == Init /\ [][Next]_vars

NextToken ==
    \/ \E e \in Emails : UserSave(e)
    \/ \E e \in Emails : UserDelete(e)
    \/ \E u \in users : GenerateToken(u)
    \/ \E tok \in TokenInputs : VerifyToken(tok)
    \/ Tick
    \/ Teardown

SpecToken == Init /\ [][NextToken]_vars

NextConc ==
    \/ \E t \in Threads, op \in ThreadOps : Call(t, op)
    \/ \E t \in Threads : TRaisesOnDeactive(t)
    \/ \E t \in Threads : TUserCommit(t)
    \/ \E t \in Threads : TUserRefresh(t)
    \/ \E t \in Threads : TUserReload(t)
    \/ \E t \in Threads : TCategoryRefresh(t)
    \/ \E t \in Threads : TCategoryReload(t)
    \/ \E t \in Threads : TDeleteQuery(t)
    \/ \E t \in Threads : TDeleteCommit(t)
    \/ \E t \in Threads : TTeardown(t)
    \/ \E t \in Threads : TGocExists(t)
    \/ \E t \in Threads : TGocFetch(t)
    \/ \E t \in Threads : TCategoryCommit(t)
    \/ \E t \in Threads : TCategoryQuery(t)
    \/ \E t \in Threads : Return(t)

SpecConc == Init /\ [][NextConc]_vars

\* ================================================================ claims

\* C1: User.delete(email) of an existing user removes exactly the Buckets
\* and the Activities whose user_id is that user's id, and nothing else: an
\* Activity of another user stays, also when it sits in one of the deleted
\* user's Buckets.
C1_DeleteRemovesOnlyOwnRows ==
    [][\A e \in Emails : \A u \in users :
         (u.email = e /\ SessionUsable /\ UserDelete(e)) =>
            /\ users' = users \ {u}
            /\ \A r \in buckets \cup activities :
                 r.user_id = u.id => r \notin buckets' \cup activities'
            /\ \A r \in buckets \cup activities :
                 (\E o \in users : o # u /\ o.id = r.user_id)
                     => r \in buckets' \cup activities'
            /\ buckets' \subseteq buckets
            /\ activities' \subseteq activities]_vars

\* C2: every stored Bucket and every stored Activity has a user_id that is
\* the id of a stored User.
C2_NoOrphans ==
    \A r \in buckets \cup activities : \E u \in users : u.id = r.user_id

\* C10: every stored Activity's bucket_id is the id of a stored Bucket whose
\* user_id equals the Activity's user_id.
C10_ActivityInOwnBucket ==
    \A a \in activities :
        \E b \in buckets : b.id = a.bucket_id /\ b.user_id = a.user_id

\* C3: no two User rows share an email and no two Category rows share a
\* category_name, whatever the interleaving of the concurrent calls; a commit
\* that would insert a duplicate raises IntegrityError to its caller and
\* leaves both tables as they were.
C3_UniqueColumns ==
    /\ \A u1, u2 \in users : u1.email = u2.email => u1 = u2
    /\ \A c1, c2 \in categories : c1.category_name = c2.category_name => c1 = c2

C3_UniqueAndDuplicateFails ==
    /\ []C3_UniqueColumns
    /\ [][\A t \in Threads :
            /\ (TUserCommit(t) /\ \E u \in users : u.email = threads[t].arg)
                 => /\ users' = users
                    /\ categories' = categories
                    /\ threads'[t].pc = "done"
                    /\ threads'[t].err = IntegrityError
            /\ (TCategoryCommit(t)
                  /\ \E c \in categories : c.category_name = threads[t].arg)
                 => /\ users' = users
                    /\ categories' = categories
                    /\ threads'[t].pc = "done"
                    /\ threads'[t].err = IntegrityError]_vars

\* A Category.save that was refused because the name is already stored.
C3_Witness ==
    \E t \in Threads :
        /\ threads[t].pc = "done"
        /\ threads[t].op = "Category.save"
        /\ threads[t].err = IntegrityError
        /\ \E c \in categories : c.category_name = threads[t].arg

\* C4: get_or_create returns the stored row of its email when its check
\* finds one and otherwise saves a new row; the check and the save are
\* separate steps, so a save whose email was committed by another caller
\* after the check ends in IntegrityError and writes nothing.
C4_GetOrCreateNotAtomic ==
    [][\A t \in Threads : threads[t].op = "User.get_or_create" =>
          /\ TGocExists(t) =>
               (threads'[t].pc = "goc.fetch"
                    <=> \E u \in users : u.email = threads[t].arg)
          /\ TGocFetch(t) =>
               /\ threads'[t].err = NoError
               /\ users' = users
               /\ \A u \in users :
                    u.email = threads[t].arg => u.id = threads'[t].val
               /\ (\A u \in users : u.email # threads[t].arg)
                    => threads'[t].val = NULL
          /\ TUserCommit(t) =>
               IF \E u \in users : u.email = threads[t].arg
               THEN threads'[t].err = IntegrityError /\ users' = users
               ELSE /\ threads'[t].err = NoError
                    /\ threads'[t].val \notin IdsOf(users)
                    /\ users' = users \cup {[id |-> threads'[t].val,
                                             email |-> threads[t].arg]}]_vars

\* Two get_or_create calls for one email both went on to save: one created
\* the row, the other ended in IntegrityError.
C4_Witness ==
    \E t1, t2 \in Threads :
        /\ t1 # t2
        /\ threads[t1].pc = "done" /\ threads[t2].pc = "done"
        /\ threads[t1].op = "User.get_or_create"
        /\ threads[t2].op = "User.get_or_create"
        /\ threads[t1].arg = threads[t2].arg
        /\ threads[t1].err = NoError
        /\ [id |-> threads[t1].val, email |-> threads[t1].arg] \in users
        /\ threads[t2].err = IntegrityError

\* C5: Category.exists(name) for a name not stored adds exactly one row of
\* that name and returns it; for a stored name it returns that row and adds
\* nothing; after a call that returned, exactly one row has the name and it
\* is the row returned.
C5_ExistsCreatesOnce ==
    /\ [](\A t \in Threads :
            (threads[t].pc = "done" /\ threads[t].op = "Category.exists"
               /\ threads[t].err = NoError) =>
                {c \in categories : c.category_name = threads[t].arg}
                    = {[id |-> threads[t].val, category_name |-> threads[t].arg]})
    /\ [][\A t \in Threads : threads[t].op = "Category.exists" =>
            /\ TCategoryQuery(t) =>
                 /\ categories' = categories
                 /\ IF \E c \in categories : c.category_name = threads[t].arg
                    THEN /\ threads'[t].pc = "done"
                         /\ threads'[t].err = NoError
                         /\ [id |-> threads'[t].val,
                             category_name |-> threads[t].arg] \in categories
                    ELSE threads'[t].pc = "cat.save"
            /\ (TCategoryCommit(t)
                  /\ \A c \in categories : c.category_name # threads[t].arg) =>
                 /\ threads'[t].err = NoError
                 /\ threads'[t].val \notin IdsOf(categories)
                 /\ categories' = categories
                      \cup {[id |-> threads'[t].val,
                             category_name |-> threads[t].arg]}]_vars

\* One Category.exists call created the row of a name and a later call for
\* the same name returned that same row.
C5_Witness ==
    \E t1, t2 \in Threads :
        /\ t1 # t2
        /\ threads[t1].pc = "done" /\ threads[t2].pc = "done"
        /\ threads[t1].op = "Category.exists"
        /\ threads[t2].op = "Category.exists"
        /\ threads[t1].arg = threads[t2].arg
        /\ threads[t1].err = NoError /\ threads[t2].err = NoError
        /\ threads[t1].val = threads[t2].val
        /\ Cardinality(categories) >= 2

\* C6: Activity.exists(bucket_id, user_id, activity_id) returns true exactly
\* when the row with that id, that bucket_id and that user_id is stored, and
\* it writes nothing.
C6_ExistsMatchesAllThreeKeys ==
    [][\A b \in BucketRefs, u \in UserRefs, a \in ActivityRefs :
          ActivityExists(b, u, a) =>
            /\ UNCHANGED <<users, buckets, activities, categories>>
            /\ SessionUsable =>
                 /\ ret'.err = NoError
                 /\ ret'.val =
                      ([id |-> a, bucket_id |-> b, user_id |-> u] \in activities)
          ]_vars

\* Activity.exists answered false although activities are stored.
C6_Witness ==
    /\ ret.op = "Activity.exists"
    /\ ret.err = NoError
    /\ ret.val = FALSE
    /\ activities # {}

\* C7: Bucket.delete(bucket_id, user) removes the bucket of that id when its
\* user_id is the given user; otherwise (another owner, or no such bucket)
\* it raises and every table is left as it was.
C7_DeleteOnlyOwnBucket ==
    [][\A b \in BucketRefs, u \in UserRefs :
          (SessionUsable /\ BucketDelete(b, u)) =>
            IF [id |-> b, user_id |-> u] \in buckets
            THEN /\ buckets' = buckets \ {[id |-> b, user_id |-> u]}
                 /\ ret'.err = NoError
            ELSE /\ UNCHANGED <<users, buckets, activities, categories>>
                 /\ ret'.err = UnmappedInstanceError]_vars

\* Bucket.delete raised while a bucket with activities is stored.
C7_Witness ==
    /\ ret.op = "Bucket.delete"
    /\ ret.err = UnmappedInstanceError
    /\ \E b \in buckets : \E a \in activities : a.bucket_id = b.id

\* C8: User.drop_all never raises, and after it either no User row is left
\* or every table holds exactly the rows it held before.
C8_DropAllAllOrNothing ==
    [][UserDropAll =>
          /\ ret'.err = NoError
          /\ \/ users' = {}
             \/ UNCHANGED <<users, buckets, activities, categories>>]_vars

\* drop_all returned after a failed bulk delete: the users are still there.
C8_Witness ==
    /\ ret.op = "User.drop_all"
    /\ ret.err = NoError
    /\ fkEnforced
    /\ Cardinality(users) >= 2

\* C9: verify_token of a token issued for user U returns a user with U's id
\* as long as the token is unexpired, and None for an expired or a tampered
\* token.
C9_UnexpiredTokenReturnsUser ==
    [][\A tok \in issued :
          (SessionUsable /\ tok.exp >= now /\ VerifyToken(tok)) =>
             ret' = Returned("User.verify_token", tok.id)]_vars

\* C9 as amended: an unexpired issued token yields the stored user of that
\* id, or None when no user of that id is stored any more; an expired and a
\* tampered token yield None; the clock never runs backwards, so an expired
\* token stays expired.
C9_TokenRoundTrip ==
    [][/\ now' >= now
       /\ issued \subseteq issued'
       /\ \A tok \in TokenInputs : VerifyToken(tok) =>
            /\ UNCHANGED <<users, buckets, activities, categories>>
            /\ (tok \in issued /\ tok.exp >= now /\ SessionUsable) =>
                  ret' = Returned("User.verify_token",
                                  IF \E u \in users : u.id = tok.id
                                  THEN tok.id ELSE NULL)
            /\ (tok \in issued /\ tok.exp < now) =>
                  ret' = Returned("User.verify_token", NULL)
            /\ tok \notin issued =>
                  ret' = Returned("User.verify_token", NULL)]_vars

\* A token was verified after its issue and before its expiry.
C9_Witness ==
    /\ ret.op = "User.verify_token"
    /\ ret.err = NoError
    /\ \E tok \in issued :
         /\ tok.id = ret.val
         /\ tok.exp - ExpiresIn < now
         /\ now <= tok.exp
    /\ \E u \in users : u.id = ret.val

====
